---- MODULE Spec2Model ----
(***************************************************************************)
(* Model of mitre-mitigates.go (it255ru/mitremit): the bundle cache        *)
(* (getCacheDir, isCacheValid, fetchBundle, downloadBundle) and the        *)
(* resolution pipeline of main (index, resolve, join, sort).               *)
(*                                                                         *)
(* Strings are sequences of code points, so that comparison, prefix tests  *)
(* and path cleaning are computed and not assumed.                         *)
(***************************************************************************)
EXTENDS Integers, Sequences, FiniteSets, TLC

(***************************************************************************)
(* Bounds of the model.                                                    *)
(***************************************************************************)
\* longest MITRE_CACHE_DIR value enumerated over PathChars
MaxPathLen == 4
\* distinct bundle bodies the network can serve
NumVersions == 2
\* pieces in which a bundle reaches a file (a write can stop after any of them)
BundleLen == 2
\* clock ticks of half a TTL that a run may take
MaxTicks == 3
\* slots of the inode table: two directory entries and two open files
NumInodes == 4
\* most objects in a bundle
MaxObjects == 4
\* the longest argument given to quoteID on its own
MaxIDLen == 3

(***************************************************************************)
(* String helpers.                                                         *)
(***************************************************************************)
\* "/" "." "a": the characters path cleaning distinguishes, and one ordinary one
PathChars == {47, 46, 97}

\* all strings over alphabet cs of length at most n
StringsUpTo(cs, n) == UNION {[1..k -> cs] : k \in 0..n}

\* strings.HasPrefix
HasPrefix(s, prefix) ==
    /\ Len(s) >= Len(prefix)
    /\ SubSeq(s, 1, Len(prefix)) = prefix

\* byte-wise s < t, the order of Go's string comparison
RECURSIVE StrLess(_, _)
StrLess(s, t) ==
    IF t = <<>> THEN FALSE
    ELSE IF s = <<>> THEN TRUE
    ELSE IF Head(s) # Head(t) THEN Head(s) < Head(t)
    ELSE StrLess(Tail(s), Tail(t))

\* strings.TrimPrefix
TrimPrefix(s, prefix) ==
    IF HasPrefix(s, prefix) THEN SubSeq(s, Len(prefix) + 1, Len(s)) ELSE s

\* simple case folding of one code point, on the ASCII letters
Fold(c) == IF c >= 65 /\ c <= 90 THEN c + 32 ELSE c

\* strings.EqualFold
EqualFold(s, t) ==
    /\ Len(s) = Len(t)
    /\ \A i \in 1..Len(s) : Fold(s[i]) = Fold(t[i])

\* unicode.IsSpace on the ASCII range: tab, LF, VT, FF, CR, space
IsSpace(c) == c \in {9, 10, 11, 12, 13, 32}

\* strings.TrimSpace
RECURSIVE TrimSpace(_)
TrimSpace(s) ==
    IF s = <<>> THEN s
    ELSE IF IsSpace(Head(s)) THEN TrimSpace(Tail(s))
    ELSE IF IsSpace(s[Len(s)]) THEN TrimSpace(SubSeq(s, 1, Len(s) - 1))
    ELSE s

(***************************************************************************)
(* path/filepath on a Unix build: Clean, IsAbs, Join.                      *)
(***************************************************************************)
IsPathSeparator(c) == c = 47

\* path[r] in Go's 0-based indexing
At(path, r) == path[r + 1]

\* the inner loop of the ".." case: drop the last element written to out
RECURSIVE CleanBacktrack(_, _, _)
CleanBacktrack(out, w, dotdot) ==
    IF w > dotdot /\ ~IsPathSeparator(At(out, w))
    THEN CleanBacktrack(out, w - 1, dotdot)
    ELSE SubSeq(out, 1, w)

\* the default case: copy one element of path to out; the pair <<r, out>>
RECURSIVE CleanCopy(_, _, _)
CleanCopy(path, r, out) ==
    IF r < Len(path) /\ ~IsPathSeparator(At(path, r))
    THEN CleanCopy(path, r + 1, Append(out, At(path, r)))
    ELSE <<r, out>>

RECURSIVE CleanLoop(_, _, _, _, _)
CleanLoop(path, r, out, dotdot, rooted) ==
    LET n == Len(path) IN
    IF r >= n THEN out
    ELSE IF IsPathSeparator(At(path, r))
    THEN CleanLoop(path, r + 1, out, dotdot, rooted)
    ELSE IF At(path, r) = 46 /\ (r + 1 = n \/ IsPathSeparator(At(path, r + 1)))
    THEN CleanLoop(path, r + 1, out, dotdot, rooted)
    ELSE IF /\ At(path, r) = 46
            /\ At(path, r + 1) = 46
            /\ (r + 2 = n \/ IsPathSeparator(At(path, r + 2)))
    THEN IF Len(out) > dotdot
         THEN CleanLoop(path, r + 2,
                        CleanBacktrack(out, Len(out) - 1, dotdot), dotdot, rooted)
         ELSE IF ~rooted
         THEN LET o2 == (IF Len(out) > 0 THEN Append(out, 47) ELSE out)
                          \o <<46, 46>>
              IN CleanLoop(path, r + 2, o2, Len(o2), rooted)
         ELSE CleanLoop(path, r + 2, out, dotdot, rooted)
    ELSE LET o1 == IF (rooted /\ Len(out) # 1) \/ (~rooted /\ Len(out) # 0)
                   THEN Append(out, 47) ELSE out
             c  == CleanCopy(path, r, o1)
         IN CleanLoop(path, c[1], c[2], dotdot, rooted)

\* filepath.Clean
Clean(path) ==
    IF path = <<>> THEN <<46>>
    ELSE LET rooted == IsPathSeparator(path[1])
             out == IF rooted THEN CleanLoop(path, 1, <<47>>, 1, TRUE)
                              ELSE CleanLoop(path, 0, <<>>, 0, FALSE)
         IN IF out = <<>> THEN <<46>> ELSE out

\* filepath.IsAbs
IsAbs(path) == HasPrefix(path, <<47>>)

\* filepath.Join of two elements
Join(dir, name) ==
    IF dir = <<>> /\ name = <<>> THEN <<>>
    ELSE IF dir = <<>> THEN Clean(name)
    ELSE IF name = <<>> THEN Clean(dir)
    ELSE Clean(dir \o <<47>> \o name)

(***************************************************************************)
(* Cache directory resolution.                                             *)
(***************************************************************************)
\* "/dev/null": getCacheDir's value when caching is disabled
DevNull == <<47, 100, 101, 118, 47, 110, 117, 108, 108>>
\* ".mitre-cache"
LocalCacheDir == <<46, 109, 105, 116, 114, 101, 45, 99, 97, 99, 104, 101>>
\* "/tmp/.mitre-cache"
ContainerCacheDir == <<47, 116, 109, 112, 47>> \o LocalCacheDir
\* "../../tmp/evil"
EvilRelativeDir == <<46, 46, 47, 46, 46, 47, 116, 109, 112, 47, 101, 118, 105, 108>>
\* "/a"
DirA == <<47, 97>>

\* what isRunningInContainer looks at: the two marker files and the cgroup text
ContainerProbes == [dockerenv : BOOLEAN, containerenv : BOOLEAN, cgroup : BOOLEAN]

isRunningInContainer(probes) ==
    IF probes.dockerenv THEN TRUE
    ELSE IF probes.containerenv THEN TRUE
    ELSE probes.cgroup

\* faulty variant: --cache-dir is looked at before --no-cache
getCacheDirFlagFirst(noCache, cacheDirFlag, envDir, probes) ==
    IF cacheDirFlag # <<>> THEN [dir |-> cacheDirFlag, warning |-> FALSE]
    ELSE IF noCache THEN [dir |-> DevNull, warning |-> FALSE]
    ELSE IF envDir # <<>> /\ IsAbs(Clean(envDir))
    THEN [dir |-> Clean(envDir), warning |-> FALSE]
    ELSE [dir |-> IF isRunningInContainer(probes)
                  THEN ContainerCacheDir ELSE LocalCacheDir,
          warning |-> envDir # <<>>]

\* faulty variant: a relative MITRE_CACHE_DIR is cleaned and used, without the IsAbs test
getCacheDirNoAbsCheck(noCache, cacheDirFlag, envDir, probes) ==
    IF noCache THEN [dir |-> DevNull, warning |-> FALSE]
    ELSE IF cacheDirFlag # <<>> THEN [dir |-> cacheDirFlag, warning |-> FALSE]
    ELSE IF envDir # <<>>
    THEN [dir |-> Clean(envDir), warning |-> ~IsAbs(Clean(envDir))]
    ELSE [dir |-> IF isRunningInContainer(probes)
                  THEN ContainerCacheDir ELSE LocalCacheDir,
          warning |-> FALSE]

\* getCacheDir: the directory, and whether the WARNING line went to stderr
\* faulty variant: --no-cache is not looked at
getCacheDirNoCacheIgnored(noCache, cacheDirFlag, envDir, probes) ==
    IF cacheDirFlag # <<>> THEN [dir |-> cacheDirFlag, warning |-> FALSE]
    ELSE IF envDir # <<>> /\ IsAbs(Clean(envDir))
    THEN [dir |-> Clean(envDir), warning |-> FALSE]
    ELSE [dir |-> LocalCacheDir, warning |-> envDir # <<>>]

getCacheDir(noCache, cacheDirFlag, envDir, probes) ==
    IF noCache THEN [dir |-> DevNull, warning |-> FALSE]
    ELSE IF cacheDirFlag # <<>> THEN [dir |-> cacheDirFlag, warning |-> FALSE]
    ELSE IF envDir # <<>> /\ IsAbs(Clean(envDir))
    THEN [dir |-> Clean(envDir), warning |-> FALSE]
    ELSE [dir |-> IF isRunningInContainer(probes)
                  THEN ContainerCacheDir ELSE LocalCacheDir,
          warning |-> envDir # <<>>]


(***************************************************************************)
(* State.                                                                  *)
(***************************************************************************)
VARIABLES
    \* getCacheDir applied on its own: the flags and environment, the result
    dirIn, dirOut,
    \* the file system: clock (hours), directories, directory entries, inodes
    now, dirs, names, inodes,
    \* one record of locals per invocation of the program
    pc, cacheDir, forceRefresh, data, fd, ret,
    \* observations of an invocation: debug lines printed, network retrievals
    \* made, and the cache file as it was when the invocation began
    dbg, netCalls, before,
    \* main after the fetch: the parsed bundle and the selector, where main
    \* is, its lookup maps, the mitigation found and the sorted result
    bundle, selector, mainPc, mitMap, techMap, rels, chosenMitSTIXID, results,
    \* what main has written to standard error and to standard output
    stderr, stdout,
    \* downloadBundle applied on its own: the response served, the result
    dlIn, dlOut,
    \* quoteID applied on its own: the argument, the result
    idIn, idOut

varsDir == <<dirIn, dirOut>>
varsMain == <<bundle, selector, mainPc, mitMap, techMap, rels,
              chosenMitSTIXID, results, stderr, stdout>>
varsFn == <<dlIn, dlOut, idIn, idOut>>
varsFs == <<now, dirs, names, inodes>>
varsProc == <<pc, cacheDir, forceRefresh, data, fd, ret>>
varsObs == <<dbg, netCalls, before>>
varsCache == <<varsFs, varsProc, varsObs>>
vars == <<varsDir, varsFn, varsCache, varsMain>>

(***************************************************************************)
(* getCacheDir as a function of the flags and the environment.             *)
(***************************************************************************)
\* values of --cache-dir: unset, "/a", "a"
CacheDirFlags == {<<>>, DirA, <<97>>}

\* values of MITRE_CACHE_DIR: every short path, the attack path of the tests,
\* and the two defaults themselves
EnvDirs == StringsUpTo(PathChars, MaxPathLen)
               \cup {EvilRelativeDir, LocalCacheDir, ContainerCacheDir, DevNull}

DirInputs == [noCache : BOOLEAN, cacheDirFlag : CacheDirFlags,
              envDir : EnvDirs, probes : ContainerProbes]

NoDirResult == [dir |-> <<>>, warning |-> FALSE, called |-> FALSE]

InitDirQuiet ==
    /\ dirIn = [noCache |-> FALSE, cacheDirFlag |-> <<>>, envDir |-> <<>>,
                probes |-> [dockerenv |-> FALSE, containerenv |-> FALSE,
                            cgroup |-> FALSE]]
    /\ dirOut = NoDirResult

InitDir ==
    /\ dirIn \in DirInputs
    /\ dirOut = NoDirResult

CallGetCacheDir ==
    /\ ~dirOut.called
    /\ LET r == getCacheDir(dirIn.noCache, dirIn.cacheDirFlag,
                            dirIn.envDir, dirIn.probes)
       IN dirOut' = [dir |-> r.dir, warning |-> r.warning, called |-> TRUE]
    /\ UNCHANGED <<dirIn, varsFn, varsCache, varsMain>>


(***************************************************************************)
(* The file system under the cache directory.                              *)
(***************************************************************************)
\* cacheTTL, in hours
cacheTTL == 24

\* the two permission words that occur: rw------- and rw-r--r--
Perm0600 == 6 * 64
Perm0644 == 6 * 64 + 4 * 8 + 4

Procs == {1, 2}
Versions == 1..NumVersions

\* "enterprise-attack.json"
BundleFileName == <<101, 110, 116, 101, 114, 112, 114, 105, 115, 101, 45,
                    97, 116, 116, 97, 99, 107, 46, 106, 115, 111, 110>>
\* ".tmp"
TmpSuffix == <<46, 116, 109, 112>>

BundlePath(dir) == Join(dir, BundleFileName)

\* faulty variant: the bundle is written in place, under the final name
TmpPathInPlace(bundlePath) == bundlePath

TmpPath(bundlePath) == bundlePath \o TmpSuffix

\* the cache directories the invocations of this model resolve to
CacheDirs == {DirA}
FilePaths == {BundlePath(d) : d \in CacheDirs}
                 \cup {TmpPath(BundlePath(d)) : d \in CacheDirs}

NoInode == [content |-> <<>>, mode |-> 0, mtime |-> 0]
NoFile == [exists |-> FALSE, content |-> <<>>, mode |-> 0, mtime |-> 0]
NoFd == [ino |-> 0, off |-> 0]

\* the bytes of bundle version v as they lie in a file
Chunks(v) == [i \in 1..BundleLen |-> v]

\* what a stat and a read of path show
FileAt(nm, ino, path) ==
    IF nm[path] = 0 THEN NoFile
    ELSE [exists |-> TRUE, content |-> ino[nm[path]].content,
          mode |-> ino[nm[path]].mode, mtime |-> ino[nm[path]].mtime]

\* an inode lives while a directory entry or an open file refers to it
Live(nm, fds) == {nm[f] : f \in FilePaths} \cup {fds[p].ino : p \in Procs}

FreeInode(nm, fds) ==
    CHOOSE i \in 1..NumInodes :
        /\ i \notin Live(nm, fds)
        /\ \A j \in 1..NumInodes : j \notin Live(nm, fds) => i <= j

\* the inode table with the unreferenced inodes released
ReleaseInodes(nm, fds, ino) ==
    [i \in 1..NumInodes |-> IF i \in Live(nm, fds) THEN ino[i] ELSE NoInode]

\* a write of one piece of version v at offset off (a gap reads as zeroes)
WriteAt(content, off, v) ==
    [i \in 1..(IF off + 1 > Len(content) THEN off + 1 ELSE Len(content)) |->
        IF i = off + 1 THEN v
        ELSE IF i <= Len(content) THEN content[i]
        ELSE 0]

(***************************************************************************)
(* downloadBundle.                                                         *)
(***************************************************************************)
\* maxSize, in bytes
maxSize == 200 * 1024 * 1024

StatusOK == 200

\* what the server and the transport can do to one GET
Responses(lens) ==
    {[transport |-> "failed", status |-> 0, bodyLen |-> 0, readErr |-> FALSE,
      ver |-> 0]}
    \cup [transport : {"ok"}, status : {StatusOK, 404}, bodyLen : lens,
          readErr : BOOLEAN, ver : Versions]

NoData == [ver |-> 0, size |-> 0]

\* bytes io.ReadAll gets through the LimitedReader, and N afterwards
LimitedRead(bodyLen, n) == IF bodyLen < n THEN bodyLen ELSE n

downloadBundle(resp) ==
    IF resp.transport # "ok" THEN [err |-> "download bundle", data |-> NoData]
    ELSE IF resp.status # StatusOK THEN [err |-> "bundle HTTP", data |-> NoData]
    ELSE IF resp.readErr THEN [err |-> "read response", data |-> NoData]
    ELSE LET got == LimitedRead(resp.bodyLen, maxSize)
             left == maxSize - got
         IN IF left <= 0
            THEN [err |-> "bundle too large", data |-> NoData]
            ELSE [err |-> "", data |-> [ver |-> resp.ver, size |-> got]]

\* downloadBundle on its own: body lengths around the cap, and small ones
DownloadBodyLens ==
    {0, 1, 2, maxSize - 2, maxSize - 1, maxSize, maxSize + 1, maxSize + 2}

NoResponse == [transport |-> "none", status |-> 0, bodyLen |-> 0,
               readErr |-> FALSE, ver |-> 0]
NoDownload == [err |-> "", data |-> NoData, called |-> FALSE]

InitDlQuiet ==
    /\ dlIn = NoResponse
    /\ dlOut = NoDownload

InitDl ==
    /\ dlIn \in Responses(DownloadBodyLens)
    /\ dlOut = NoDownload

CallDownloadBundle ==
    /\ ~dlOut.called
    /\ LET r == downloadBundle(dlIn)
       IN dlOut' = [err |-> r.err, data |-> r.data, called |-> TRUE]
    /\ UNCHANGED <<dlIn, idIn, idOut, varsDir, varsCache, varsMain>>

(***************************************************************************)
(* fetchBundle, one file-system or network operation per step.             *)
(***************************************************************************)
NoRet == [kind |-> "none", src |-> "", bytes |-> <<>>, err |-> ""]
NoBefore == [dirExists |-> FALSE, file |-> NoFile, noCache |-> FALSE]

\* flags and environment of the invocations: all of them resolve to "/a" or
\* to the disabled cache
InvocationConfigs ==
    [noCache : BOOLEAN, cacheDirFlag : {<<>>, DirA},
     envDir : {DirA, <<47, 97, 47>>},
     probes : {[dockerenv |-> FALSE, containerenv |-> FALSE, cgroup |-> FALSE]},
     forceRefresh : BOOLEAN]

\* body lengths the server sends to an invocation
InvocationBodyLens == {1, maxSize, maxSize + 1}

Disabled(p) == cacheDir[p] = DevNull

Log(p, line) == dbg' = [dbg EXCEPT ![p] = @ \cup {line}]

\* return data, nil / return cached, nil / return nil, err
Return(p, r) ==
    /\ ret' = [ret EXCEPT ![p] = r]
    /\ pc' = [pc EXCEPT ![p] = "returned"]

ReturnData(p) ==
    Return(p, [kind |-> "ok", src |-> "net", bytes |-> Chunks(data[p].ver),
               err |-> ""])

\* lines 201-224: getCacheDir, then os.MkdirAll unless the cache is disabled
FetchBundleEnter(p) ==
    /\ pc[p] = "idle"
    /\ \E cfg \in InvocationConfigs :
         LET dir == getCacheDir(cfg.noCache, cfg.cacheDirFlag, cfg.envDir,
                                cfg.probes).dir
         IN /\ cacheDir' = [cacheDir EXCEPT ![p] = dir]
            /\ forceRefresh' = [forceRefresh EXCEPT ![p] = cfg.forceRefresh]
            /\ before' = [before EXCEPT ![p] =
                   IF dir = DevNull
                   THEN [NoBefore EXCEPT !.noCache = cfg.noCache]
                   ELSE [dirExists |-> dir \in dirs,
                         file |-> FileAt(names, inodes, BundlePath(dir)),
                         noCache |-> cfg.noCache]]
            /\ \/ /\ dir = DevNull \/ dir \in dirs
                  /\ pc' = [pc EXCEPT ![p] = "check"]
                  /\ UNCHANGED <<dirs, ret>>
               \/ /\ dir # DevNull /\ dir \notin dirs
                  /\ dirs' = dirs \cup {dir}
                  /\ pc' = [pc EXCEPT ![p] = "check"]
                  /\ UNCHANGED ret
               \/ /\ dir # DevNull /\ dir \notin dirs
                  /\ Return(p, [kind |-> "err", src |-> "", bytes |-> <<>>,
                                err |-> "create cache directory"])
                  /\ UNCHANGED dirs
    /\ UNCHANGED <<now, names, inodes, data, fd, dbg, netCalls, varsDir, varsFn, varsMain>>

\* isCacheValid: os.Stat succeeded and time.Since(ModTime) < cacheTTL
isCacheValid(file, t) ==
    /\ file.exists
    /\ t - file.mtime < cacheTTL

\* lines 230-231 and 245-257: the test of the cache
CheckCache(p) ==
    /\ pc[p] = "check"
    /\ IF ~Disabled(p) /\ ~forceRefresh[p]
       THEN IF isCacheValid(FileAt(names, inodes, BundlePath(cacheDir[p])), now)
            THEN /\ pc' = [pc EXCEPT ![p] = "read"]
                 /\ UNCHANGED dbg
            ELSE /\ pc' = [pc EXCEPT ![p] = "download"]
                 /\ Log(p, "cache expired or missing")
       ELSE /\ pc' = [pc EXCEPT ![p] = "download"]
            /\ Log(p, IF forceRefresh[p] THEN "force refresh" ELSE "cache disabled")
    /\ UNCHANGED <<varsFs, cacheDir, forceRefresh, data, fd, ret, netCalls,
                   before, varsDir, varsFn, varsMain>>

\* lines 232-244: os.ReadFile of the cache file
ReadCache(p) ==
    /\ pc[p] = "read"
    /\ LET file == FileAt(names, inodes, BundlePath(cacheDir[p]))
       IN \/ /\ file.exists
             /\ Log(p, "cached bundle found")
             /\ Return(p, [kind |-> "ok", src |-> "cache",
                           bytes |-> file.content, err |-> ""])
          \/ \* the file cannot be opened or read
             /\ Log(p, "cache read error")
             /\ pc' = [pc EXCEPT ![p] = "download"]
             /\ UNCHANGED ret
    /\ UNCHANGED <<varsFs, cacheDir, forceRefresh, data, fd, netCalls, before,
                   varsDir, varsFn, varsMain>>

\* faulty variant: a failed download is tried again
AfterDownloadErrorRetry(p, err) ==
    /\ pc' = [pc EXCEPT ![p] = "download"]
    /\ UNCHANGED ret

\* lines 266-268: return nil, err
AfterDownloadError(p, err) ==
    Return(p, [kind |-> "err", src |-> "", bytes |-> <<>>, err |-> err])

\* lines 265-277: downloadBundle, and the choice to cache
Download(p) ==
    /\ pc[p] = "download"
    /\ netCalls' = [netCalls EXCEPT ![p] = @ + 1]
    /\ \E resp \in Responses(InvocationBodyLens) :
         LET r == downloadBundle(resp)
         IN IF r.err # ""
            THEN /\ AfterDownloadError(p, r.err)
                 /\ UNCHANGED data
            ELSE /\ data' = [data EXCEPT ![p] = r.data]
                 /\ IF Disabled(p)
                    THEN Return(p, [kind |-> "ok", src |-> "net",
                                    bytes |-> Chunks(r.data.ver), err |-> ""])
                    ELSE /\ pc' = [pc EXCEPT ![p] = "open"]
                         /\ UNCHANGED ret
    /\ UNCHANGED <<varsFs, cacheDir, forceRefresh, fd, dbg, before, varsDir, varsFn, varsMain>>

\* faulty variant: the temporary file is created readable by group and others
TmpFileModeWorldReadable == Perm0644

\* the perm argument of os.WriteFile
TmpFileMode == Perm0600

\* line 283, os.WriteFile: OpenFile(tmpPath, O_WRONLY|O_CREATE|O_TRUNC, 0o600)
OpenTmp(p) ==
    /\ pc[p] = "open"
    /\ LET tmp == TmpPath(BundlePath(cacheDir[p]))
       IN \/ /\ names[tmp] # 0
             /\ inodes' = [inodes EXCEPT ![names[tmp]].content = <<>>,
                                         ![names[tmp]].mtime = now]
             /\ fd' = [fd EXCEPT ![p] = [ino |-> names[tmp], off |-> 0]]
             /\ pc' = [pc EXCEPT ![p] = "write"]
             /\ UNCHANGED <<names, ret, dbg>>
          \/ /\ names[tmp] = 0
             /\ LET i == FreeInode(names, fd)
                IN /\ inodes' = [inodes EXCEPT ![i] =
                          [content |-> <<>>, mode |-> TmpFileMode, mtime |-> now]]
                   /\ names' = [names EXCEPT ![tmp] = i]
                   /\ fd' = [fd EXCEPT ![p] = [ino |-> i, off |-> 0]]
             /\ pc' = [pc EXCEPT ![p] = "write"]
             /\ UNCHANGED <<ret, dbg>>
          \/ \* the open fails
             /\ Log(p, "failed to write cache")
             /\ ReturnData(p)
             /\ UNCHANGED <<names, inodes, fd>>
    /\ UNCHANGED <<now, dirs, cacheDir, forceRefresh, data, netCalls, before,
                   varsDir, varsFn, varsMain>>

\* line 283, os.WriteFile: f.Write(data) piece by piece, then f.Close()
WriteTmp(p) ==
    /\ pc[p] = "write"
    /\ \/ /\ LET i == fd[p].ino
                 fds == IF fd[p].off + 1 = BundleLen
                        THEN [fd EXCEPT ![p] = NoFd]
                        ELSE [fd EXCEPT ![p].off = @ + 1]
                 ino == [inodes EXCEPT
                            ![i].content = WriteAt(@, fd[p].off, data[p].ver),
                            ![i].mtime = now]
             IN /\ fd' = fds
                /\ inodes' = ReleaseInodes(names, fds, ino)
                /\ pc' = [pc EXCEPT ![p] =
                       IF fd[p].off + 1 = BundleLen THEN "rename" ELSE "write"]
          /\ UNCHANGED <<ret, dbg>>
       \/ \* the write fails: the file is closed and stays as far as it got
          /\ fd' = [fd EXCEPT ![p] = NoFd]
          /\ inodes' = ReleaseInodes(names, fd', inodes)
          /\ Log(p, "failed to write cache")
          /\ ReturnData(p)
    /\ UNCHANGED <<now, dirs, names, cacheDir, forceRefresh, data, netCalls,
                   before, varsDir, varsFn, varsMain>>

\* faulty variant: the rename reports success and moves nothing
RenameNoop(nm, from, to) == nm

\* rename(2): the entry at to is replaced by the one at from, in one step
Rename(nm, from, to) ==
    IF from = to THEN nm
    ELSE [nm EXCEPT ![to] = nm[from], ![from] = 0]

\* lines 290-298: os.Rename(tmpPath, bundlePath)
RenameTmp(p) ==
    /\ pc[p] = "rename"
    /\ LET final == BundlePath(cacheDir[p])
           tmp == TmpPath(final)
       IN \/ /\ names[tmp] # 0
             /\ names' = Rename(names, tmp, final)
             /\ inodes' = ReleaseInodes(names', fd, inodes)
             /\ Log(p, "cache saved successfully")
             /\ ReturnData(p)
          \/ \* the rename fails; it must when tmpPath is gone
             /\ Log(p, "failed to rename cache file")
             /\ pc' = [pc EXCEPT ![p] = "remove"]
             /\ UNCHANGED <<names, inodes, ret>>
    /\ UNCHANGED <<now, dirs, cacheDir, forceRefresh, data, fd, netCalls,
                   before, varsDir, varsFn, varsMain>>

\* line 295: os.Remove(tmpPath), its error ignored
RemoveTmp(p) ==
    /\ pc[p] = "remove"
    /\ LET tmp == TmpPath(BundlePath(cacheDir[p]))
       IN \/ /\ names' = [names EXCEPT ![tmp] = 0]
             /\ inodes' = ReleaseInodes(names', fd, inodes)
          \/ UNCHANGED <<names, inodes>>
    /\ ReturnData(p)
    /\ UNCHANGED <<now, dirs, cacheDir, forceRefresh, data, fd, dbg, netCalls,
                   before, varsDir, varsFn, varsMain>>

\* main, lines 374-378: a fetch error ends the program with status 1
MainAfterFetch(p) ==
    /\ pc[p] = "returned"
    /\ pc' = [pc EXCEPT ![p] = IF ret[p].kind = "err" THEN "exit1" ELSE "loaded"]
    /\ UNCHANGED <<varsFs, cacheDir, forceRefresh, data, fd, ret, varsObs,
                   varsDir, varsFn, varsMain>>

\* the body the server can send with status 200 that is not JSON (an error
\* page, a proxy's answer): the last of the versions
NotJSON == NumVersions

\* json.Unmarshal(raw, &bundle) succeeds: raw is the whole of a body that is
\* JSON
Unmarshal(raw) == \E v \in Versions \ {NotJSON} : raw = Chunks(v)

\* main, lines 379-383: the bytes are parsed as a Bundle, or the program ends
\* with status 1
ParseBundle(p) ==
    /\ pc[p] = "loaded"
    /\ pc' = [pc EXCEPT ![p] = IF Unmarshal(ret[p].bytes) THEN "parsed"
                                ELSE "exit1"]
    /\ UNCHANGED <<varsFs, cacheDir, forceRefresh, data, fd, ret, varsObs,
                   varsDir, varsFn, varsMain>>

\* the process ends; the next invocation starts from fresh locals
ProcessEnd(p) ==
    /\ pc[p] \in {"exit1", "parsed"}
    /\ pc' = [pc EXCEPT ![p] = "idle"]
    /\ cacheDir' = [cacheDir EXCEPT ![p] = <<>>]
    /\ forceRefresh' = [forceRefresh EXCEPT ![p] = FALSE]
    /\ data' = [data EXCEPT ![p] = NoData]
    /\ ret' = [ret EXCEPT ![p] = NoRet]
    /\ dbg' = [dbg EXCEPT ![p] = {}]
    /\ netCalls' = [netCalls EXCEPT ![p] = 0]
    /\ before' = [before EXCEPT ![p] = NoBefore]
    /\ UNCHANGED <<varsFs, fd, varsDir, varsFn, varsMain>>

\* half a TTL passes between invocations (one invocation is short against it)
Tick ==
    /\ \A p \in Procs : pc[p] = "idle"
    /\ now + cacheTTL \div 2 <= MaxTicks * (cacheTTL \div 2)
    /\ now' = now + cacheTTL \div 2
    /\ UNCHANGED <<dirs, names, inodes, varsProc, varsObs, varsDir, varsFn, varsMain>>

\* one invocation of the program, up to its exit
Invocation(p) ==
    \/ FetchBundleEnter(p)
    \/ CheckCache(p)
    \/ ReadCache(p)
    \/ Download(p)
    \/ OpenTmp(p)
    \/ WriteTmp(p)
    \/ RenameTmp(p)
    \/ RemoveTmp(p)
    \/ MainAfterFetch(p)
    \/ ParseBundle(p)

Step(p) == Invocation(p) \/ ProcessEnd(p)

(***************************************************************************)
(* quoteID.                                                                *)
(***************************************************************************)
\* unicode.IsLetter and unicode.IsDigit on the code points the model uses:
\* ASCII, Latin-1 (170 and 186 are the ordinal indicators, 181 the micro
\* sign, 215 and 247 the multiplication and division signs), the Cyrillic
\* letters 1040..1103 and the Arabic-Indic digits 1632..1641
IsLetter(r) ==
    \/ r \in 65..90 \/ r \in 97..122
    \/ r \in {170, 181, 186}
    \/ r \in 192..255 /\ r \notin {215, 247}
    \/ r \in 1040..1103

IsDigit(r) == r \in 48..57 \/ r \in 1632..1641

\* faulty variant: the rune is kept whatever it is
SanitizeNothing(r) == r

\* the function given to strings.Map
Sanitize(r) ==
    IF IsLetter(r) \/ IsDigit(r) \/ r = 45 \/ r = 95 \/ r = 46 THEN r ELSE 95

\* strings.ReplaceAll(str, "`", "``")
RECURSIVE DoubleBackticks(_)
DoubleBackticks(str) ==
    IF str = <<>> THEN <<>>
    ELSE (IF Head(str) = 96 THEN <<96, 96>> ELSE <<Head(str)>>)
             \o DoubleBackticks(Tail(str))

quoteID(str) ==
    LET sanitized == [i \in 1..Len(str) |-> Sanitize(str[i])]
    IN <<96>> \o DoubleBackticks(sanitized) \o <<96>>

NoQuoted == [text |-> <<>>, called |-> FALSE]

\* the runes of the arguments tried: ` ; space newline " ' a Z 1 - _ . and
\* e-acute, the multiplication sign, a Cyrillic letter, an Arabic-Indic digit
IDRunes == {96, 59, 32, 10, 34, 39, 97, 90, 49, 45, 95, 46, 233, 215, 1046, 1633}

InitId ==
    /\ idIn \in StringsUpTo(IDRunes, MaxIDLen)
    /\ idOut = NoQuoted

CallQuoteID ==
    /\ ~idOut.called
    /\ idOut' = [text |-> quoteID(idIn), called |-> TRUE]
    /\ UNCHANGED <<idIn, dlIn, dlOut, varsDir, varsCache, varsMain>>

(***************************************************************************)
(* main after the fetch: index the bundle, find the mitigation, collect    *)
(* and sort its techniques.                                                *)
(***************************************************************************)
\* "mitre-attack"
MitreAttack == <<109, 105, 116, 114, 101, 45, 97, 116, 116, 97, 99, 107>>
\* "attack-pattern--"
AttackPatternPrefix == <<97, 116, 116, 97, 99, 107, 45, 112, 97, 116, 116,
                         101, 114, 110, 45, 45>>
\* "course-of-action--"
CourseOfActionPrefix == <<99, 111, 117, 114, 115, 101, 45, 111, 102, 45, 97,
                          99, 116, 105, 111, 110, 45, 45>>

\* externalID: the first reference of source "mitre-attack" with an id
RECURSIVE externalID(_)
externalID(refs) ==
    IF refs = <<>> THEN [id |-> <<>>, ok |-> FALSE]
    ELSE IF /\ EqualFold(Head(refs).source_name, MitreAttack)
            /\ Head(refs).external_id # <<>>
    THEN [id |-> Head(refs).external_id, ok |-> TRUE]
    ELSE externalID(Tail(refs))

\* one element of bundle.Objects: whether it decodes as a baseObject, its
\* type, whether it decodes as the struct of that type, and the members
\* (kill_chain_phases is a member ATT&CK techniques have and no struct reads)
Object(type, id, name, refs, relType, src, tgt) ==
    [parses |-> TRUE, type |-> type, shape |-> TRUE, id |-> id, name |-> name,
     refs |-> refs, relationship_type |-> relType, source_ref |-> src,
     target_ref |-> tgt, kill_chain_phases |-> <<>>]

Mitigation(n, name, ext) ==
    Object("course-of-action", CourseOfActionPrefix \o n, name,
           <<[source_name |-> MitreAttack, external_id |-> ext]>>,
           "", <<>>, <<>>)

Technique(n, name, ext) ==
    Object("attack-pattern", AttackPatternPrefix \o n, name,
           <<[source_name |-> MitreAttack, external_id |-> ext]>>,
           "", <<>>, <<>>)

Relationship(relType, m, t) ==
    Object("relationship", <<>>, <<>>, <<>>, relType,
           CourseOfActionPrefix \o m, AttackPatternPrefix \o t)

\* the objects bundles are made of: mitigation M1 "Fa"; techniques T2 "A",
\* T1 "B" and a second T1 "C"; M1 mitigates each of them; M1 uses the second;
\* M1 mitigates a technique that is not in the bundle
ObjectUniverse ==
    { Mitigation(<<49>>, <<70, 97>>, <<77, 49>>),
      Technique(<<49>>, <<65>>, <<84, 50>>),
      Technique(<<50>>, <<66>>, <<84, 49>>),
      Technique(<<51>>, <<67>>, <<84, 49>>),
      Relationship("mitigates", <<49>>, <<49>>),
      Relationship("mitigates", <<49>>, <<50>>),
      Relationship("mitigates", <<49>>, <<51>>),
      Relationship("uses", <<49>>, <<50>>),
      Relationship("mitigates", <<49>>, <<57>>) }

Bundles == UNION {[1..n -> ObjectUniverse] : n \in 0..MaxObjects}

\* -mitigation m1, and -mitigation-name " FA"
Selectors == { [mitigation |-> <<109, 49>>, mitigationName |-> <<>>],
               [mitigation |-> <<>>, mitigationName |-> <<32, 70, 65>>] }

NoMap == <<>>

\* m[k] = v, the rest of m kept
MapPut(m, k, v) ==
    [x \in DOMAIN m \cup {k} |-> IF x = k THEN v ELSE m[x]]

\* json.Unmarshal into courseOfAction or attackPattern, and into
\* relationship: the members the struct has, everything else dropped
DecodeNamed(o) == [type |-> o.type, id |-> o.id, name |-> o.name, refs |-> o.refs]

DecodeRelationship(o) ==
    [type |-> o.type, id |-> o.id, relationship_type |-> o.relationship_type,
     source_ref |-> o.source_ref, target_ref |-> o.target_ref]

\* faulty variant: the loop stops at the first element it cannot use
RECURSIVE IndexObjectsUntilBad(_, _, _, _)
IndexObjectsUntilBad(objs, mits, techs, rs) ==
    IF objs = <<>> THEN [mitMap |-> mits, techMap |-> techs, rels |-> rs]
    ELSE LET o == Head(objs) IN
         IF ~o.parses \/ ~o.shape
         THEN [mitMap |-> mits, techMap |-> techs, rels |-> rs]
         ELSE IF o.type = "course-of-action"
         THEN IndexObjectsUntilBad(Tail(objs), MapPut(mits, o.id, DecodeNamed(o)),
                                   techs, rs)
         ELSE IF o.type = "attack-pattern"
         THEN IndexObjectsUntilBad(Tail(objs), mits,
                                   MapPut(techs, o.id, DecodeNamed(o)), rs)
         ELSE IF o.type = "relationship"
         THEN IndexObjectsUntilBad(Tail(objs), mits, techs,
                                   Append(rs, DecodeRelationship(o)))
         ELSE IndexObjectsUntilBad(Tail(objs), mits, techs, rs)

\* lines 392-414: the loop over bundle.Objects
RECURSIVE IndexObjects(_, _, _, _)
IndexObjects(objs, mits, techs, rs) ==
    IF objs = <<>> THEN [mitMap |-> mits, techMap |-> techs, rels |-> rs]
    ELSE LET o == Head(objs) IN
         IF ~o.parses THEN IndexObjects(Tail(objs), mits, techs, rs)
         ELSE IF o.type = "course-of-action" /\ o.shape
         THEN IndexObjects(Tail(objs), MapPut(mits, o.id, DecodeNamed(o)), techs, rs)
         ELSE IF o.type = "attack-pattern" /\ o.shape
         THEN IndexObjects(Tail(objs), mits, MapPut(techs, o.id, DecodeNamed(o)), rs)
         ELSE IF o.type = "relationship" /\ o.shape
         THEN IndexObjects(Tail(objs), mits, techs, Append(rs, DecodeRelationship(o)))
         ELSE IndexObjects(Tail(objs), mits, techs, rs)

\* lines 388-414
BuildLookupMaps ==
    /\ mainPc = "index"
    /\ LET ix == IndexObjects(bundle, NoMap, NoMap, <<>>)
       IN /\ mitMap' = ix.mitMap
          /\ techMap' = ix.techMap
          /\ rels' = ix.rels
    /\ mainPc' = "find"
    /\ UNCHANGED <<bundle, selector, chosenMitSTIXID, results, stderr, stdout,
                   varsDir, varsFn, varsCache>>

\* the mitigations the lookup loop can stop at (Go ranges over a map in no
\* fixed order and the loop breaks at the first match)
Matches(mits, sel) ==
    IF sel.mitigation # <<>>
    THEN {id \in DOMAIN mits :
             /\ externalID(mits[id].refs).ok
             /\ EqualFold(externalID(mits[id].refs).id, sel.mitigation)}
    ELSE {id \in DOMAIN mits :
             EqualFold(mits[id].name, TrimSpace(sel.mitigationName))}

\* lines 428-429 and 441-444: the line written to standard error before
\* os.Exit(1), as its format and the arguments put into it
NoOutput == <<>>

NotFound(sel) ==
    IF sel.mitigation # <<>>
    THEN [format |-> "mitigation %s not found in ATT&CK data",
          args |-> <<sel.mitigation>>]
    ELSE [format |-> "mitigation name %q not found (check spelling)",
          args |-> <<TrimSpace(sel.mitigationName)>>]

\* lines 419-445: find the mitigation or exit with status 1
FindMitigation ==
    /\ mainPc = "find"
    /\ \E id \in (IF Matches(mitMap, selector) = {} THEN {<<>>}
                   ELSE Matches(mitMap, selector)) :
         /\ chosenMitSTIXID' = id
         /\ mainPc' = IF id = <<>> THEN "exit1" ELSE "collect"
         /\ stderr' = IF id = <<>> THEN NotFound(selector) ELSE stderr
    /\ UNCHANGED <<bundle, selector, mitMap, techMap, rels, results, stdout,
                   varsDir, varsFn, varsCache>>

\* faulty variant: the kind of the relationship is not looked at
RECURSIVE CollectResultsAnyKind(_, _, _)
CollectResultsAnyKind(rs, techs, chosen) ==
    IF rs = <<>> THEN <<>>
    ELSE LET r == Head(rs)
             rest == CollectResultsAnyKind(Tail(rs), techs, chosen)
         IN IF r.source_ref = chosen /\ r.target_ref \in DOMAIN techs
            THEN <<[ExternalID |-> externalID(techs[r.target_ref].refs).id,
                    Name |-> techs[r.target_ref].name]>> \o rest
            ELSE rest

\* lines 450-468: one techniqueInfo per matching relationship, in the order
\* of rels
RECURSIVE CollectResults(_, _, _)
CollectResults(rs, techs, chosen) ==
    IF rs = <<>> THEN <<>>
    ELSE LET r == Head(rs)
             rest == CollectResults(Tail(rs), techs, chosen)
         IN IF r.relationship_type # "mitigates" THEN rest
            ELSE IF r.source_ref # chosen THEN rest
            ELSE IF r.target_ref \in DOMAIN techs
            THEN LET tp == techs[r.target_ref]
                     ext == IF externalID(tp.refs).id = <<>>
                            THEN TrimPrefix(tp.id, AttackPatternPrefix)
                            ELSE externalID(tp.refs).id
                 IN <<[ExternalID |-> ext, Name |-> tp.name]>> \o rest
            ELSE rest

\* the orders sort.Slice can leave xs in: every arrangement of xs in which
\* no element is less than one before it (the sort is not stable)
SortedArrangements(xs) ==
    LET n == Len(xs)
        perms == {f \in [1..n -> 1..n] : \A i, j \in 1..n : i # j => f[i] # f[j]}
    IN {[i \in 1..n |-> xs[f[i]]] : f \in
           {g \in perms : \A i, j \in 1..n :
               i < j => ~StrLess(xs[g[j]].ExternalID, xs[g[i]].ExternalID)}}

\* lines 450-472: collect, then sort by ExternalID
CollectTechniques ==
    /\ mainPc = "collect"
    /\ results' \in SortedArrangements(
                        CollectResults(rels, techMap, chosenMitSTIXID))
    /\ mainPc' = "emit"
    /\ UNCHANGED <<bundle, selector, mitMap, techMap, rels, chosenMitSTIXID,
                   stderr, stdout, varsDir, varsFn, varsCache>>

\* lines 572-592, emitNGQL: the statements, each with its identifier tokens
\* (made by quoteID) and the strings put through quoteLiteral
emitNGQL(techs, mit) ==
    LET mitExt == externalID(mit.refs).id
    IN <<[verb |-> "INSERT VERTEX mitigation", ids |-> <<quoteID(mitExt)>>,
          literals |-> <<mitExt, mit.name>>]>>
       \o [i \in 1..Len(techs) |->
             [verb |-> "INSERT VERTEX technique",
              ids |-> <<quoteID(techs[i].ExternalID)>>,
              literals |-> <<techs[i].ExternalID, techs[i].Name>>]]
       \o [i \in 1..Len(techs) |->
             [verb |-> "INSERT EDGE mitigates",
              ids |-> <<quoteID(mitExt), quoteID(techs[i].ExternalID)>>,
              literals |-> <<>>]]

\* lines 483-487: techniqueInfo through encoding/json, one object per record
\* with the members its struct tags name
EncodeJSON(techs) ==
    [i \in 1..Len(techs) |->
        [external_id |-> techs[i].ExternalID, name |-> techs[i].Name]]

\* lines 489-496: the CSV header and rows
EncodeCSV(techs, mit) ==
    [header |-> <<"Mitigation ID", "Mitigation Name", "Technique ID",
                  "Technique Name">>,
     rows |-> [i \in 1..Len(techs) |->
                 <<externalID(mit.refs).id, mit.name, techs[i].ExternalID,
                   techs[i].Name>>]]

\* lines 543-554, printTable
printTable(mit, techs) ==
    [title |-> <<"MITIGATION", mit.name, externalID(mit.refs).id>>,
     header |-> <<"TECHNIQUE ID", "TECHNIQUE NAME">>,
     rows |-> [i \in 1..Len(techs) |-> <<techs[i].ExternalID, techs[i].Name>>]]

OutputFlags == [ngql : BOOLEAN, json : BOOLEAN, csv : BOOLEAN]

\* lines 477-498: the output in the format the flags ask for
Emit ==
    /\ mainPc = "emit"
    /\ \E f \in OutputFlags :
         stdout' = IF f.ngql
                   THEN [format |-> "ngql",
                         out |-> emitNGQL(results, mitMap[chosenMitSTIXID])]
                   ELSE IF f.json
                   THEN [format |-> "json", out |-> EncodeJSON(results)]
                   ELSE IF f.csv
                   THEN [format |-> "csv",
                         out |-> EncodeCSV(results, mitMap[chosenMitSTIXID])]
                   ELSE [format |-> "table",
                         out |-> printTable(mitMap[chosenMitSTIXID], results)]
    /\ mainPc' = "done"
    /\ UNCHANGED <<bundle, selector, mitMap, techMap, rels, chosenMitSTIXID,
                   results, stderr, varsDir, varsFn, varsCache>>

\* the mitigations the lookups are tried on: "Fa" M1; "Fb" M2; "Fab" whose
\* first reference (id M2) is from another source and whose second gives M3;
\* "Fd" M4 without an "id" member, so that its ID field decodes as ""; and
\* "Fe" whose source name is spelled MITRE-ATTACK and whose id is m5
LookupUniverse ==
    { Mitigation(<<49>>, <<70, 97>>, <<77, 49>>),
      Mitigation(<<50>>, <<70, 98>>, <<77, 50>>),
      Object("course-of-action", CourseOfActionPrefix \o <<51>>, <<70, 97, 98>>,
             << [source_name |-> <<99, 97, 112, 101, 99>>,
                 external_id |-> <<77, 50>>],
                [source_name |-> MitreAttack, external_id |-> <<77, 51>>] >>,
             "", <<>>, <<>>),
      Object("course-of-action", <<>>, <<70, 100>>,
             <<[source_name |-> MitreAttack, external_id |-> <<77, 52>>]>>,
             "", <<>>, <<>>),
      Object("course-of-action", CourseOfActionPrefix \o <<53>>, <<70, 101>>,
             <<[source_name |-> <<77, 73, 84, 82, 69, 45, 65, 84, 84, 65, 67, 75>>,
                external_id |-> <<109, 53>>]>>,
             "", <<>>, <<>>) }

LookupBundles == UNION {[1..n -> LookupUniverse] : n \in 0..MaxObjects}

\* -mitigation m1, M1, M2, M3, m4, M5, M9; -mitigation-name " FA", "Fa",
\* "fb ", "Fab", "Fx", "Fd", "Qqqq"
LookupSelectors ==
    { [mitigation |-> m, mitigationName |-> <<>>] :
        m \in { <<109, 49>>, <<77, 49>>, <<77, 50>>, <<77, 51>>, <<109, 52>>,
                <<77, 53>>, <<77, 57>> } }
    \cup
    { [mitigation |-> <<>>, mitigationName |-> n] :
        n \in { <<32, 70, 65>>, <<70, 97>>, <<102, 98, 32>>, <<70, 97, 98>>,
                <<70, 120>>, <<70, 100>>, <<81, 113, 113, 113>> } }

InitLookupMain ==
    /\ bundle \in LookupBundles
    /\ selector \in LookupSelectors
    /\ mainPc = "index"
    /\ mitMap = NoMap
    /\ techMap = NoMap
    /\ rels = <<>>
    /\ chosenMitSTIXID = <<>>
    /\ results = <<>>
    /\ stderr = NoOutput
    /\ stdout = NoOutput

\* a technique with kill-chain phases
TechniqueWithPhases(n, name, ext, phases) ==
    [Technique(n, name, ext) EXCEPT !.kill_chain_phases = phases]

\* the objects the join is tried on: mitigation M1; technique T2 "A", which
\* has a tactic, and technique T1 "B"; M1 mitigates both; M1 uses "B";
\* another mitigation mitigates "A"; M1 mitigates a technique that is not in
\* the bundle
JoinUniverse ==
    { Mitigation(<<49>>, <<70, 97>>, <<77, 49>>),
      TechniqueWithPhases(<<49>>, <<65>>, <<84, 50>>, <<"persistence">>),
      Technique(<<50>>, <<66>>, <<84, 49>>),
      Relationship("mitigates", <<49>>, <<49>>),
      Relationship("mitigates", <<49>>, <<50>>),
      Relationship("uses", <<49>>, <<50>>),
      Relationship("mitigates", <<50>>, <<49>>),
      Relationship("mitigates", <<49>>, <<57>>) }

\* the bundles of different objects of a universe, at most n of them, in
\* every order
Arrangements(universe, n) ==
    {b \in UNION {[1..k -> universe] : k \in 0..n} :
        \A i, j \in 1..Len(b) : i # j => b[i] # b[j]}

JoinBundles == Arrangements(JoinUniverse, MaxObjects + 1)

MainStart(bundles, selectors) ==
    /\ bundle \in bundles
    /\ selector \in selectors
    /\ mainPc = "index"
    /\ mitMap = NoMap
    /\ techMap = NoMap
    /\ rels = <<>>
    /\ chosenMitSTIXID = <<>>
    /\ results = <<>>
    /\ stderr = NoOutput
    /\ stdout = NoOutput

\* -mitigation m1
InitJoinMain ==
    MainStart(JoinBundles, {[mitigation |-> <<109, 49>>, mitigationName |-> <<>>]})

\* the objects the order of the result is tried on: mitigation M1; the
\* techniques T2 "A", T1 "B" and a second T1 "C"; M1 mitigates each of them
OrderUniverse ==
    { Mitigation(<<49>>, <<70, 97>>, <<77, 49>>),
      Technique(<<49>>, <<65>>, <<84, 50>>),
      Technique(<<50>>, <<66>>, <<84, 49>>),
      Technique(<<51>>, <<67>>, <<84, 49>>),
      Relationship("mitigates", <<49>>, <<49>>),
      Relationship("mitigates", <<49>>, <<50>>),
      Relationship("mitigates", <<49>>, <<51>>) }

\* -mitigation m1
InitOrderMain ==
    MainStart(Arrangements(OrderUniverse, MaxObjects + 1),
              {[mitigation |-> <<109, 49>>, mitigationName |-> <<>>]})

\* objects whose identifiers and names hold what quoteID must take out:
\* mitigation M`1 "F;"; technique T;1 "A`"; technique "T 2" "B"; the first
\* mitigates both
NGQLUniverse ==
    { Mitigation(<<49>>, <<70, 59>>, <<77, 96, 49>>),
      Technique(<<49>>, <<65, 96>>, <<84, 59, 49>>),
      Technique(<<50>>, <<66>>, <<84, 32, 50>>),
      Relationship("mitigates", <<49>>, <<49>>),
      Relationship("mitigates", <<49>>, <<50>>) }

\* -mitigation m`1
InitNGQLMain ==
    MainStart(Arrangements(NGQLUniverse, MaxObjects + 1),
              {[mitigation |-> <<109, 96, 49>>, mitigationName |-> <<>>]})

\* elements the index loop has to pass over: one that does not decode as a
\* baseObject, one of a type main does not know, a mitigation and a
\* relationship whose members have the wrong JSON type
Undecodable == [Object("", <<>>, <<>>, <<>>, "", <<>>, <<>>) EXCEPT !.parses = FALSE]

Misshapen(o) == [o EXCEPT !.shape = FALSE]

IndexUniverse ==
    { Mitigation(<<49>>, <<70, 97>>, <<77, 49>>),
      Technique(<<49>>, <<65>>, <<84, 50>>),
      Relationship("mitigates", <<49>>, <<49>>),
      Undecodable,
      Object("malware", <<109, 45, 45, 49>>, <<88>>, <<>>, "", <<>>, <<>>),
      Misshapen(Mitigation(<<50>>, <<70, 98>>, <<77, 50>>)),
      Misshapen(Relationship("mitigates", <<49>>, <<49>>)) }

IndexBundles == UNION {[1..n -> IndexUniverse] : n \in 0..MaxObjects}

InitIndexMain ==
    MainStart(IndexBundles, {[mitigation |-> <<109, 49>>, mitigationName |-> <<>>]})

InitMainQuiet ==
    /\ bundle = <<>>
    /\ selector = [mitigation |-> <<>>, mitigationName |-> <<>>]
    /\ mainPc = "none"
    /\ mitMap = NoMap
    /\ techMap = NoMap
    /\ rels = <<>>
    /\ chosenMitSTIXID = <<>>
    /\ results = <<>>
    /\ stderr = NoOutput
    /\ stdout = NoOutput

InitMain ==
    /\ bundle \in Bundles
    /\ selector \in Selectors
    /\ mainPc = "index"
    /\ mitMap = NoMap
    /\ techMap = NoMap
    /\ rels = <<>>
    /\ chosenMitSTIXID = <<>>
    /\ results = <<>>
    /\ stderr = NoOutput
    /\ stdout = NoOutput

(***************************************************************************)
(* Initial states and specifications.                                      *)
(***************************************************************************)
InitProcs ==
    /\ pc = [p \in Procs |-> "idle"]
    /\ cacheDir = [p \in Procs |-> <<>>]
    /\ forceRefresh = [p \in Procs |-> FALSE]
    /\ data = [p \in Procs |-> NoData]
    /\ fd = [p \in Procs |-> NoFd]
    /\ ret = [p \in Procs |-> NoRet]
    /\ dbg = [p \in Procs |-> {}]
    /\ netCalls = [p \in Procs |-> 0]
    /\ before = [p \in Procs |-> NoBefore]

\* no cache directory yet
InitFsEmpty ==
    /\ now = 0
    /\ dirs = {}
    /\ names = [f \in FilePaths |-> 0]
    /\ inodes = [i \in 1..NumInodes |-> NoInode]

\* no cache directory, an empty one, or one with a complete bundle that
\* somebody wrote with mode 0644 (as the tests do)
InitFs ==
    \/ InitFsEmpty
    \/ /\ now = 0
       /\ dirs = CacheDirs
       /\ names = [f \in FilePaths |-> 0]
       /\ inodes = [i \in 1..NumInodes |-> NoInode]
    \/ /\ now = 0
       /\ dirs = CacheDirs
       /\ names = [f \in FilePaths |->
                      IF f \in {BundlePath(d) : d \in CacheDirs} THEN 1 ELSE 0]
       /\ inodes = [i \in 1..NumInodes |->
                      IF i = 1 THEN [content |-> Chunks(1), mode |-> Perm0644,
                                     mtime |-> 0]
                      ELSE NoInode]

InitCacheQuiet == InitFsEmpty /\ InitProcs

InitIdQuiet ==
    /\ idIn = <<>>
    /\ idOut = NoQuoted

InitFnQuiet == InitDlQuiet /\ InitIdQuiet

\* one invocation after another
Init == InitDirQuiet /\ InitFnQuiet /\ InitMainQuiet /\ InitFs /\ InitProcs
Next == Tick \/ Step(1)
Spec == Init /\ [][Next]_vars

\* one invocation after another, from a cache directory that is not there or
\* is empty, with nobody else writing to it
InitFromEmpty ==
    /\ InitDirQuiet /\ InitFnQuiet /\ InitMainQuiet /\ InitProcs
    /\ now = 0
    /\ dirs \in {{}, CacheDirs}
    /\ names = [f \in FilePaths |-> 0]
    /\ inodes = [i \in 1..NumInodes |-> NoInode]
SpecFromEmpty == InitFromEmpty /\ [][Next]_vars

\* two invocations at once against the same cache directory, in any
\* interleaving of their steps, at a time when the cache file (if there is
\* one) is fresh or when it is stale
InitConc ==
    /\ InitDirQuiet /\ InitFnQuiet /\ InitMainQuiet /\ InitProcs
    /\ dirs \in {{}, CacheDirs}
    /\ \E t \in {0, cacheTTL}, f \in {NoFile} \cup
               {[exists |-> TRUE, content |-> Chunks(1), mode |-> Perm0644,
                 mtime |-> 0]} :
          /\ now = t
          /\ f.exists => dirs = CacheDirs
          /\ names = [n \in FilePaths |->
                 IF f.exists /\ n \in {BundlePath(d) : d \in CacheDirs}
                 THEN 1 ELSE 0]
          /\ inodes = [i \in 1..NumInodes |->
                 IF f.exists /\ i = 1
                 THEN [content |-> f.content, mode |-> f.mode, mtime |-> f.mtime]
                 ELSE NoInode]
NextConc == \E p \in Procs : Invocation(p)
SpecConc == InitConc /\ [][NextConc]_vars

\* getCacheDir on its own
InitGetCacheDir == InitDir /\ InitFnQuiet /\ InitMainQuiet /\ InitCacheQuiet
NextGetCacheDir == CallGetCacheDir
SpecGetCacheDir == InitGetCacheDir /\ [][NextGetCacheDir]_vars

\* main on a bundle that has been fetched and parsed
InitResolve == InitMain /\ InitDirQuiet /\ InitFnQuiet /\ InitCacheQuiet

\* main from the parsed bundle to the mitigation found or the exit
InitLookup == InitLookupMain /\ InitDirQuiet /\ InitFnQuiet /\ InitCacheQuiet
NextLookup == BuildLookupMaps \/ FindMitigation
SpecLookup == InitLookup /\ [][NextLookup]_vars

\* main from the parsed bundle to the output
InitJoin == InitJoinMain /\ InitDirQuiet /\ InitFnQuiet /\ InitCacheQuiet
NextJoin == BuildLookupMaps \/ FindMitigation \/ CollectTechniques \/ Emit
SpecJoin == InitJoin /\ [][NextJoin]_vars

\* main from the parsed bundle to the sorted result, on bundles of different
\* objects in every order
InitOrder == InitOrderMain /\ InitDirQuiet /\ InitFnQuiet /\ InitCacheQuiet
NextOrder == BuildLookupMaps \/ FindMitigation \/ CollectTechniques
SpecOrder == InitOrder /\ [][NextOrder]_vars

\* the index loop on bundles with elements it cannot use
InitIndex == InitIndexMain /\ InitDirQuiet /\ InitFnQuiet /\ InitCacheQuiet
NextIndex == BuildLookupMaps
SpecIndex == InitIndex /\ [][NextIndex]_vars

\* quoteID on its own, and main up to the nGQL output
InitQuoteID ==
    /\ InitDlQuiet /\ InitDirQuiet /\ InitCacheQuiet
    /\ \/ InitId /\ InitMainQuiet
       \/ InitIdQuiet /\ InitNGQLMain
NextQuoteID ==
    CallQuoteID \/ BuildLookupMaps \/ FindMitigation \/ CollectTechniques \/ Emit
SpecQuoteID == InitQuoteID /\ [][NextQuoteID]_vars

\* downloadBundle on its own
InitDownload ==
    InitDl /\ InitIdQuiet /\ InitDirQuiet /\ InitMainQuiet /\ InitCacheQuiet
NextDownload == CallDownloadBundle
SpecDownload == InitDownload /\ [][NextDownload]_vars
NextResolve == BuildLookupMaps \/ FindMitigation \/ CollectTechniques
SpecResolve == InitResolve /\ [][NextResolve]_vars


(***************************************************************************)
(* Properties of getCacheDir (SpecGetCacheDir).                            *)
(***************************************************************************)
DefaultCacheDir(probes) ==
    IF probes.dockerenv \/ probes.containerenv \/ probes.cgroup
    THEN ContainerCacheDir ELSE LocalCacheDir

\* MITRE_CACHE_DIR is the source getCacheDir gets to, and it is relative
RelativeEnvConsulted ==
    /\ dirOut.called
    /\ ~dirIn.noCache
    /\ dirIn.cacheDirFlag = <<>>
    /\ dirIn.envDir # <<>>
    /\ dirIn.envDir[1] # 47

\* ".", "/", "/tmp": directories a relative path could be joined against
JoinBases == {<<46>>, <<47>>, <<47, 116, 109, 112>>}

IsCleanAbsolute(p) ==
    /\ p # <<>>
    /\ p[1] = 47
    /\ p = <<47>> \/ p[Len(p)] # 47
    /\ \A i \in 1..Len(p) :
         p[i] = 47 /\ i < Len(p) =>
             /\ p[i + 1] # 47
             /\ ~(p[i + 1] = 46 /\ (i + 1 = Len(p) \/ p[i + 2] = 47))
             /\ ~(/\ i + 2 <= Len(p)
                  /\ p[i + 1] = 46
                  /\ p[i + 2] = 46
                  /\ (i + 2 = Len(p) \/ p[i + 3] = 47))

FinalFile(p) == FileAt(names, inodes, BundlePath(cacheDir[p]))
TmpFile(p) == FileAt(names, inodes, TmpPath(BundlePath(cacheDir[p])))

\* fetchBundle has returned to main
Returned(p) == pc[p] \in {"returned", "exit1", "loaded", "parsed"}

\* the bytes are one whole bundle
IsComplete(bytes) == \E v \in Versions : bytes = Chunks(v)

\* the errors downloadBundle makes
FetchErrors == {"download bundle", "bundle HTTP", "read response",
                "bundle too large"}

\* the download was made and came back with bytes
Fetched(p) == netCalls[p] >= 1 /\ data[p] # NoData

\* the cache file was there, fresh and readable when the invocation ran
CacheUsable(p) ==
    /\ ~Disabled(p)
    /\ ~forceRefresh[p]
    /\ before[p].file.exists
    /\ now - before[p].file.mtime < cacheTTL
    /\ "cache read error" \notin dbg[p]

\* C2 as stated: fetchBundle returns the cache file's bytes, with no network
\* retrieval, exactly when caching is enabled, force-refresh is off and the
\* file exists, is readable and is younger than 24 hours; in every other case
\* it makes a network retrieval and does not return the cached bytes.
C2_CacheUsedIffFresh ==
    \A p \in Procs :
        Returned(p) =>
            IF CacheUsable(p)
            THEN /\ ret[p].kind = "ok"
                 /\ ret[p].src = "cache"
                 /\ ret[p].bytes = before[p].file.content
                 /\ netCalls[p] = 0
            ELSE /\ netCalls[p] = 1
                 /\ ret[p].src # "cache"

\* C3: after an invocation whose download succeeded, with caching enabled and
\* no persist step failing, the file under the final name holds exactly the
\* fetched bytes, written now.
C3_FreshBytesReplaceCache ==
    \A p \in Procs :
        (/\ Returned(p)
         /\ Fetched(p)
         /\ ~Disabled(p)
         /\ "failed to write cache" \notin dbg[p]
         /\ "failed to rename cache file" \notin dbg[p])
        => /\ FinalFile(p).exists
           /\ FinalFile(p).content = Chunks(data[p].ver)
           /\ FinalFile(p).mtime = now
           /\ ret[p].bytes = Chunks(data[p].ver)

\* a stale bundle of another version was replaced by the fetched one
C3_Witness ==
    /\ pc[1] = "returned"
    /\ Fetched(1)
    /\ "cache saved successfully" \in dbg[1]
    /\ before[1].file.exists
    /\ now - before[1].file.mtime >= cacheTTL
    /\ before[1].file.content # Chunks(data[1].ver)
    /\ FinalFile(1).content = Chunks(data[1].ver)

\* C4: from its start to its return, whatever fails, one invocation leaves
\* the file under the final name either exactly as it found it or holding the
\* whole of the bytes it fetched.
C4_FinalNameOldOrNew ==
    \A p \in Procs :
        (pc[p] # "idle" /\ ~Disabled(p)) =>
            \/ FinalFile(p) = before[p].file
            \/ /\ Fetched(p)
               /\ FinalFile(p).exists
               /\ FinalFile(p).content = Chunks(data[p].ver)

\* the write stopped half way: the temporary file is cut short and the old
\* bundle is still what the final name shows
C4_Witness ==
    /\ pc[1] = "returned"
    /\ "failed to write cache" \in dbg[1]
    /\ TmpFile(1).exists
    /\ Len(TmpFile(1).content) = 1
    /\ before[1].file.exists
    /\ FinalFile(1) = before[1].file

\* C5 as stated: with two invocations running at once, in every interleaving,
\* what a read of the final cache file returns is a whole bundle: at every
\* moment the file under the final name is complete, and so is every cached
\* bundle an invocation has read.
C5_ReadersSeeWholeBundle ==
    /\ \A d \in CacheDirs :
         names[BundlePath(d)] # 0
             => IsComplete(FileAt(names, inodes, BundlePath(d)).content)
    /\ \A p \in Procs : ret[p].src = "cache" => IsComplete(ret[p].bytes)

\* C8 as stated: no failure to persist is fatal: fetchBundle never returns an
\* error of the cache store, and once the download has succeeded it returns
\* the fetched bytes.
C8_PersistFailureNotFatal ==
    \A p \in Procs :
        Returned(p) =>
            /\ ret[p].kind = "err" => ret[p].err \in FetchErrors
            /\ Fetched(p) => /\ ret[p].kind = "ok"
                             /\ ret[p].bytes = Chunks(data[p].ver)

C10_OneFetchNoFallback ==
    \A p \in Procs :
        /\ netCalls[p] <= 1
        /\ (netCalls[p] = 1 /\ data[p] = NoData /\ pc[p] # "download") =>
               /\ pc[p] \in {"returned", "exit1"}
               /\ ret[p].kind = "err"
               /\ ret[p].err \in FetchErrors
               /\ ret[p].bytes = <<>>
               /\ ~Disabled(p) => FinalFile(p) = before[p].file

\* a download failed while a stale bundle lay in the cache: exit status 1
C10_Witness ==
    /\ pc[1] = "exit1"
    /\ netCalls[1] = 1
    /\ ret[1].err = "bundle too large"
    /\ before[1].file.exists
    /\ now - before[1].file.mtime >= cacheTTL
    /\ FinalFile(1) = before[1].file


(***************************************************************************)
(* Properties of the result list (SpecResolve).                            *)
(***************************************************************************)
\* C1 as stated: the technique list handed to the renderers is strictly
\* increasing in external identifier: sorted ascending, no identifier twice.
C1_ResultsStrictlyIncreasing ==
    mainPc = "emit" =>
        \A i \in 1..Len(results) - 1 :
            StrLess(results[i].ExternalID, results[i + 1].ExternalID)

(***************************************************************************)
(* Properties of downloadBundle (SpecDownload).                            *)
(***************************************************************************)
\* a response that arrives whole: transport and status fine, body readable
Delivered(resp) ==
    resp.transport = "ok" /\ resp.status = StatusOK /\ ~resp.readErr

\* C11: downloadBundle returns the full body when its length is at most the
\* cap of 200 MB, and fails with the "too large" error exactly when the length
\* of the body exceeds the cap; a body is never returned cut short.
C11_FullBodyUpToTheCap ==
    dlOut.called =>
        /\ (Delivered(dlIn) /\ dlIn.bodyLen <= maxSize) =>
               /\ dlOut.err = ""
               /\ dlOut.data = [ver |-> dlIn.ver, size |-> dlIn.bodyLen]
        /\ (dlOut.err = "bundle too large") <=>
               (Delivered(dlIn) /\ dlIn.bodyLen > maxSize)
        /\ dlOut.err = "" => dlOut.data.size = dlIn.bodyLen

(***************************************************************************)
(* Properties of the lookup of the mitigation (SpecLookup).                *)
(***************************************************************************)
ToLower(str) == [i \in 1..Len(str) |-> IF str[i] \in 65..90 THEN str[i] + 32
                                        ELSE str[i]]

\* str without its leading and trailing white space
Trimmed(str) ==
    LET keep == {i \in 1..Len(str) : str[i] \notin {9, 10, 11, 12, 13, 32}}
    IN IF keep = {} THEN <<>>
       ELSE LET lo == CHOOSE i \in keep : \A j \in keep : i <= j
                hi == CHOOSE i \in keep : \A j \in keep : j <= i
            IN [i \in 1..(hi - lo + 1) |-> str[lo + i - 1]]

\* the references that count: source "mitre-attack" and an identifier
Authoritative(refs) ==
    {i \in 1..Len(refs) : /\ ToLower(refs[i].source_name) = MitreAttack
                          /\ refs[i].external_id # <<>>}

\* this mitigation's authoritative external identifier is ext, ignoring case
HasExternalID(m, ext) ==
    LET a == Authoritative(m.refs)
    IN /\ a # {}
       /\ ToLower(m.refs[CHOOSE i \in a : \A j \in a : i <= j].external_id)
              = ToLower(ext)

HasName(m, name) == ToLower(m.name) = ToLower(Trimmed(name))

ByID == selector.mitigation # <<>>
Resolved == mainPc = "collect"
NotFoundExit == mainPc = "exit1"

\* C12: resolution by external identifier succeeds if and only if the index
\* holds a mitigation whose authoritative external identifier equals the
\* requested one ignoring case, and then selects such a mitigation; otherwise
\* the invocation ends with status 1 and a not-found message that carries no
\* suggestion.
C12_ResolveByExternalID ==
    (ByID /\ (Resolved \/ NotFoundExit)) =>
        /\ Resolved <=>
              \E id \in DOMAIN mitMap : HasExternalID(mitMap[id], selector.mitigation)
        /\ Resolved =>
              /\ chosenMitSTIXID \in DOMAIN mitMap
              /\ HasExternalID(mitMap[chosenMitSTIXID], selector.mitigation)
        /\ NotFoundExit => stderr.args = <<selector.mitigation>>

\* C13: resolution by name succeeds if and only if the index holds a
\* mitigation whose display name equals the requested name, trimmed of white
\* space, ignoring case; it then selects such a mitigation and goes on to the
\* join; a mitigation whose name differs is never selected.
C13_ResolveByName ==
    (~ByID /\ (Resolved \/ NotFoundExit)) =>
        /\ Resolved <=>
              \E id \in DOMAIN mitMap : HasName(mitMap[id], selector.mitigationName)
        /\ Resolved =>
              /\ chosenMitSTIXID \in DOMAIN mitMap
              /\ HasName(mitMap[chosenMitSTIXID], selector.mitigationName)

\* Levenshtein distance
RECURSIVE Levenshtein(_, _)
Levenshtein(a, b) ==
    IF a = <<>> THEN Len(b)
    ELSE IF b = <<>> THEN Len(a)
    ELSE LET del == Levenshtein(Tail(a), b) + 1
             ins == Levenshtein(a, Tail(b)) + 1
             sub == Levenshtein(Tail(a), Tail(b))
                       + (IF Head(a) = Head(b) THEN 0 ELSE 1)
             m == IF del < ins THEN del ELSE ins
         IN IF sub < m THEN sub ELSE m

\* the distinct display names within distance 2 of the target, by
\* ascending distance and then lexicographically
Suggestions(mits, target) ==
    LET close == {mits[id].name : id \in
                     {i \in DOMAIN mits :
                         Levenshtein(target, mits[i].name) <= 2}}
        before_(x, y) ==
            \/ Levenshtein(target, x) < Levenshtein(target, y)
            \/ Levenshtein(target, x) = Levenshtein(target, y) /\ StrLess(x, y)
    IN CHOOSE q \in [1..Cardinality(close) -> close] :
           \A i, j \in 1..Cardinality(close) : i < j => before_(q[i], q[j])

\* C14: on a miss by name the not-found message carries exactly the distinct
\* display names within Levenshtein distance 2 of the trimmed requested name,
\* nearest first and then lexicographically; none of them is selected, the
\* invocation still ends with status 1.
C14_NameMissCarriesSuggestions ==
    (~ByID /\ NotFoundExit) =>
        LET target == Trimmed(selector.mitigationName)
        IN /\ stderr.args = <<target>> \o Suggestions(mitMap, target)
           /\ chosenMitSTIXID = <<>>

(***************************************************************************)
(* Properties of the join (SpecJoin, SpecOrder).                           *)
(***************************************************************************)
Joined == mainPc \in {"emit", "done"}

\* the identifier a technique is listed under: its authoritative external
\* identifier, or else its internal identifier without "attack-pattern--"
ListedID(t) ==
    LET a == Authoritative(t.refs)
    IN IF a # {} THEN t.refs[CHOOSE i \in a : \A j \in a : i <= j].external_id
       ELSE IF HasPrefix(t.id, AttackPatternPrefix)
       THEN SubSeq(t.id, Len(AttackPatternPrefix) + 1, Len(t.id))
       ELSE t.id

\* the indexed techniques some "mitigates" relationship from the resolved
\* mitigation points at
Mitigated ==
    {k \in DOMAIN techMap :
        \E i \in 1..Len(rels) : /\ rels[i].relationship_type = "mitigates"
                                 /\ rels[i].source_ref = chosenMitSTIXID
                                 /\ rels[i].target_ref = k}

\* C15: the set of techniques in the result is exactly the set of indexed
\* techniques that are the target of at least one "mitigates" relationship
\* from the resolved mitigation; relationships of another kind, from another
\* source or to a technique that is not indexed add nothing and end nothing.
C15_ResultIsTheMitigatedSet ==
    /\ Joined =>
          {results[i] : i \in 1..Len(results)}
              = {[ExternalID |-> ListedID(techMap[k]), Name |-> techMap[k].name] :
                    k \in Mitigated}
    /\ mainPc = "exit1" => chosenMitSTIXID = <<>> /\ results = <<>>

\* one technique listed, while the index also holds a technique that the
\* mitigation only "uses"
C15_Witness ==
    /\ mainPc = "emit"
    /\ Len(results) = 1
    /\ \E i \in 1..Len(rels) :
          /\ rels[i].relationship_type = "uses"
          /\ rels[i].source_ref = chosenMitSTIXID
          /\ rels[i].target_ref \in DOMAIN techMap \ Mitigated

\* what main can arrive at from a bundle and a selector: the mitigation found
\* and the technique list handed to the renderers
Outcomes(b, sel) ==
    LET ix == IndexObjects(b, NoMap, NoMap, <<>>)
    IN {<<id, r>> : id \in Matches(ix.mitMap, sel) \ {<<>>},
                    r \in UNION {SortedArrangements(
                                    CollectResults(ix.rels, ix.techMap, m)) :
                                 m \in Matches(ix.mitMap, sel) \ {<<>>}}}

Reorderings(b) ==
    {[i \in 1..Len(b) |-> b[f[i]]] :
        f \in {g \in [1..Len(b) -> 1..Len(b)] :
                 \A i, j \in 1..Len(b) : i # j => g[i] # g[j]}}

\* C17: the result does not depend on the order of the input: a bundle with
\* the same objects in another order, with the same selector, gives the same
\* mitigation and the same technique sequence, identifiers and names in order.
C17_ResultIndependentOfInputOrder ==
    mainPc = "emit" =>
        \A b \in Reorderings(bundle) :
            \A o \in Outcomes(b, selector) :
                o = <<chosenMitSTIXID, results>>

\* the tactics the bundle gives for the technique listed under ext
TacticsOf(ext) ==
    UNION {{bundle[i].kill_chain_phases[j] :
               j \in 1..Len(bundle[i].kill_chain_phases)} :
           i \in {k \in 1..Len(bundle) :
                    /\ bundle[k].type = "attack-pattern"
                    /\ ListedID(bundle[k]) = ext}}

Columns(header) == {header[i] : i \in 1..Len(header)}

\* C18: every technique record of the output carries the technique's tactics:
\* in JSON a technique that has a tactic in the bundle has a non-empty
\* "tactics" array, and the CSV and table outputs have a tactics column.
C18_OutputCarriesTactics ==
    mainPc = "done" =>
        /\ stdout.format = "json" =>
              \A i \in 1..Len(stdout.out) :
                  TacticsOf(stdout.out[i].external_id) # {} =>
                      /\ "tactics" \in DOMAIN stdout.out[i]
                      /\ stdout.out[i].tactics # <<>>
        /\ stdout.format = "csv" => "Tactics" \in Columns(stdout.out.header)
        /\ stdout.format = "table" => "TACTICS" \in Columns(stdout.out.header)

(***************************************************************************)
(* Properties of quoteID and of the nGQL output (SpecQuoteID).             *)
(***************************************************************************)
\* a token made of two backticks with nothing between them but letters,
\* digits, '-', '_' and '.'
SafeToken(tok) ==
    /\ Len(tok) >= 2
    /\ tok[1] = 96 /\ tok[Len(tok)] = 96
    /\ \A i \in 2..Len(tok) - 1 :
          /\ IsLetter(tok[i]) \/ IsDigit(tok[i]) \/ tok[i] \in {45, 95, 46}
          /\ tok[i] \notin {59, 96, 9, 10, 11, 12, 13, 32}

\* C16: whatever the argument, what quoteID puts between its two backticks
\* is made of letters, digits, '-', '_' and '.' only; so every identifier
\* token of the nGQL output (mitigation vertex, technique vertices, edges) is
\* free of semicolons, backticks and white space.
C16_IdentifiersAreSafe ==
    /\ idOut.called =>
          /\ SafeToken(idOut.text)
          /\ Len(idOut.text) = Len(idIn) + 2
    /\ (mainPc = "done" /\ stdout.format = "ngql") =>
          \A i \in 1..Len(stdout.out) :
              \A j \in 1..Len(stdout.out[i].ids) :
                  SafeToken(stdout.out[i].ids[j])

\* quoteID has been given a backtick, a semicolon and a space
C16_Witness ==
    /\ idOut.called
    /\ idIn = <<96, 59, 32>>

(***************************************************************************)
(* Properties of the index loop (SpecIndex).                               *)
(***************************************************************************)
\* an element the loop can use: it decodes, its type is one of the three,
\* and it decodes as the struct of that type
Usable(o) ==
    /\ o.parses
    /\ o.type \in {"course-of-action", "attack-pattern", "relationship"}
    /\ o.shape

UsableOnly(b) ==
    LET keep == {i \in 1..Len(b) : Usable(b[i])}
        RECURSIVE pick(_)
        pick(i) == IF i > Len(b) THEN <<>>
                   ELSE (IF i \in keep THEN <<b[i]>> ELSE <<>>) \o pick(i + 1)
    IN pick(1)

\* C19: the index loop never stops at a bad element: elements that do not
\* decode, elements of a type it does not know and elements of a known type
\* with a wrong shape are passed over, and every other mitigation, technique
\* and relationship is indexed exactly as if the bad elements were not there.
C19_BadElementsAreSkipped ==
    mainPc = "find" =>
        /\ <<mitMap, techMap, rels>>
              = LET ix == IndexObjects(UsableOnly(bundle), NoMap, NoMap, <<>>)
                IN <<ix.mitMap, ix.techMap, ix.rels>>
        /\ \A i \in 1..Len(bundle) :
              Usable(bundle[i]) =>
                  \/ bundle[i].type = "course-of-action"
                        /\ bundle[i].id \in DOMAIN mitMap
                  \/ bundle[i].type = "attack-pattern"
                        /\ bundle[i].id \in DOMAIN techMap
                  \/ bundle[i].type = "relationship"
                        /\ \E k \in 1..Len(rels) :
                              /\ rels[k].source_ref = bundle[i].source_ref
                              /\ rels[k].target_ref = bundle[i].target_ref
        /\ Len(rels) = Cardinality({i \in 1..Len(bundle) :
                             Usable(bundle[i]) /\ bundle[i].type = "relationship"})

\* a bundle that begins with an element that does not decode and goes on
\* with a misshapen one, and whose mitigation and relationship are indexed
C19_Witness ==
    /\ mainPc = "find"
    /\ Len(bundle) = 4
    /\ ~bundle[1].parses
    /\ ~bundle[2].shape
    /\ DOMAIN mitMap # {}
    /\ Len(rels) = 1

(***************************************************************************)
(* Properties of an invocation with --no-cache (Spec).                     *)
(***************************************************************************)
NoCache(p) == before[p].noCache

ParseErrorExit(p) == pc[p] = "exit1" /\ ret[p].kind = "ok"

\* C21: from an empty cache directory and with no other writer, the cache
\* file only ever holds bytes that parse as a bundle: an invocation that uses
\* a fresh cache file never ends with a parse error of the bundle, so one bad
\* download cannot make the invocations of the next 24 hours fail.
C21_CacheHoldsOnlyParseableBytes ==
    /\ \A d \in CacheDirs :
          FileAt(names, inodes, BundlePath(d)).exists
              => Unmarshal(FileAt(names, inodes, BundlePath(d)).content)
    /\ \A p \in Procs : ParseErrorExit(p) => ret[p].src # "cache"

=============================================================================
